---- MODULE Spec2Model ----
(***************************************************************************)
(* Model of the scalar helpers of Math.h and of Vector2f (Vector.h,        *)
(* Vector.inl).  Every `float` of the source is an IEEE-754 binary         *)
(* floating-point number: sign, significand and exponent, with signed      *)
(* zeros, subnormals, infinities and NaN, and every arithmetic operation   *)
(* rounds its exact result to nearest, ties to even.  The exponent range   *)
(* is that of binary32; the significand has Precision bits instead of 24,  *)
(* so that the operations can be enumerated.                               *)
(***************************************************************************)
EXTENDS Integers, Sequences, FiniteSets

\* Number of significand bits of the modelled float (binary32 has 24).
Precision == 3

\* Exponent range of a normal binary32 number 1.f * 2^E.
Emin == -126
Emax == 127

\* A finite float is (-1)^neg * m * 2^e.  Normal: 2^(Precision-1) <= m < 2^Precision
\* and UlpMin <= e <= UlpMax.  Subnormal or zero: m < 2^(Precision-1) and e = UlpMin.
UlpMin == Emin - (Precision - 1)
UlpMax == Emax - (Precision - 1)

Pow2(k) == 2 ^ k

RECURSIVE BitLen(_)
BitLen(n) == IF n = 0 THEN 0 ELSE 1 + BitLen(n \div 2)

Max2(a, b) == IF a > b THEN a ELSE b

NaN == [cls |-> "nan", neg |-> FALSE, m |-> 0, e |-> 0]
Inf(neg) == [cls |-> "inf", neg |-> neg, m |-> 0, e |-> 0]
Fin(neg, m, e) == [cls |-> "fin", neg |-> neg, m |-> m, e |-> e]
Zero(neg) == Fin(neg, 0, UlpMin)

IsNaN(a) == a.cls = "nan"
IsInf(a) == a.cls = "inf"
IsFinite(a) == a.cls = "fin"
IsZero(a) == a.cls = "fin" /\ a.m = 0

\* Rounding of the exact value (-1)^neg * (M + f) * 2^E, where 0 < f < 1 when
\* sticky and f = 0 otherwise, to the nearest float, ties to even; a result
\* beyond the largest float becomes an infinity.
RoundShifted(neg, M, E, sticky, shift) ==
  LET q == M \div Pow2(shift)
      r == M % Pow2(shift)
      half == Pow2(shift - 1)
      up == (r > half) \/ (r = half /\ (sticky \/ q % 2 = 1))
      m1 == IF up THEN q + 1 ELSE q
      m2 == IF m1 = Pow2(Precision) THEN Pow2(Precision - 1) ELSE m1
      e2 == IF m1 = Pow2(Precision) THEN E + shift + 1 ELSE E + shift
  IN IF e2 > UlpMax THEN Inf(neg) ELSE Fin(neg, m2, e2)

Round(neg, M, E, sticky) ==
  LET L == BitLen(M)
      shift == Max2(L - Precision, UlpMin - E)
  IN IF M = 0 THEN Zero(neg)
     ELSE IF shift <= 0 THEN
            (IF E + shift > UlpMax THEN Inf(neg)
             ELSE Fin(neg, M * Pow2(0 - shift), E + shift))
     ELSE IF shift > L THEN Zero(neg)
     ELSE RoundShifted(neg, M, E, sticky, shift)

\* unary minus
FNeg(a) == IF IsNaN(a) THEN NaN ELSE [a EXCEPT !.neg = ~a.neg]

\* a * b
FMul(a, b) ==
  IF IsNaN(a) \/ IsNaN(b) THEN NaN
  ELSE IF (IsInf(a) /\ IsZero(b)) \/ (IsZero(a) /\ IsInf(b)) THEN NaN
  ELSE IF IsInf(a) \/ IsInf(b) THEN Inf(a.neg # b.neg)
  ELSE Round(a.neg # b.neg, a.m * b.m, a.e + b.e, FALSE)

\* a / b
FDiv(a, b) ==
  IF IsNaN(a) \/ IsNaN(b) THEN NaN
  ELSE IF (IsInf(a) /\ IsInf(b)) \/ (IsZero(a) /\ IsZero(b)) THEN NaN
  ELSE IF IsInf(a) \/ IsZero(b) THEN Inf(a.neg # b.neg)
  ELSE IF IsInf(b) \/ IsZero(a) THEN Zero(a.neg # b.neg)
  ELSE LET k == 2 * Precision + 1
           N == a.m * Pow2(k)
       IN Round(a.neg # b.neg, N \div b.m, a.e - b.e - k, N % b.m # 0)

\* Sum of two nonzero finite floats, hi the one with the larger exponent.
AddFinite(hi, lo) ==
  LET d == hi.e - lo.e
      sh == IF hi.neg THEN 0 - hi.m ELSE hi.m
      sl == IF lo.neg THEN 0 - lo.m ELSE lo.m
      S == sh * Pow2(d) + sl
  IN IF d >= Precision + 2
     THEN Round(hi.neg, IF hi.neg = lo.neg THEN hi.m * 4 ELSE hi.m * 4 - 1, hi.e - 2, TRUE)
     ELSE IF S = 0 THEN Zero(FALSE)
     ELSE Round(S < 0, IF S < 0 THEN 0 - S ELSE S, lo.e, FALSE)

\* a + b
FAdd(a, b) ==
  IF IsNaN(a) \/ IsNaN(b) THEN NaN
  ELSE IF IsInf(a) /\ IsInf(b) THEN (IF a.neg = b.neg THEN a ELSE NaN)
  ELSE IF IsInf(a) THEN a
  ELSE IF IsInf(b) THEN b
  ELSE IF IsZero(a) /\ IsZero(b) THEN Zero(a.neg /\ b.neg)
  ELSE IF IsZero(a) THEN b
  ELSE IF IsZero(b) THEN a
  ELSE IF a.e >= b.e THEN AddFinite(a, b) ELSE AddFinite(b, a)

\* a - b
FSub(a, b) == FAdd(a, FNeg(b))

\* Largest r with r * r <= n, for lo * lo <= n < hi * hi.
RECURSIVE ISqrtIn(_, _, _)
ISqrtIn(n, lo, hi) ==
  IF hi - lo <= 1 THEN lo
  ELSE LET mid == (lo + hi) \div 2
       IN IF mid * mid <= n THEN ISqrtIn(n, mid, hi) ELSE ISqrtIn(n, lo, mid)

ISqrt(n) == ISqrtIn(n, 0, Pow2((BitLen(n) + 1) \div 2))

\* sqrtf(a)
FSqrt(a) ==
  IF IsNaN(a) THEN NaN
  ELSE IF IsZero(a) THEN a
  ELSE IF a.neg THEN NaN
  ELSE IF IsInf(a) THEN a
  ELSE LET k == 2 * Precision + 2 + (a.e % 2)
           N == a.m * Pow2(k)
           r == ISqrt(N)
       IN Round(FALSE, r, (a.e - k) \div 2, r * r # N)

\* Position of a non-NaN float's magnitude in the order of magnitudes.
MagLess(a, b) ==
  LET ea == IF IsInf(a) THEN UlpMax + 1 ELSE a.e
      eb == IF IsInf(b) THEN UlpMax + 1 ELSE b.e
  IN (ea < eb) \/ (ea = eb /\ a.m < b.m)

\* a < b
FLt(a, b) ==
  IF IsNaN(a) \/ IsNaN(b) THEN FALSE
  ELSE IF IsZero(a) /\ IsZero(b) THEN FALSE
  ELSE IF a.neg /\ ~b.neg THEN TRUE
  ELSE IF ~a.neg /\ b.neg THEN FALSE
  ELSE IF a.neg THEN MagLess(b, a)
  ELSE MagLess(a, b)

\* a > b
FGt(a, b) == FLt(b, a)

\* a == b
FEq(a, b) ==
  IF IsNaN(a) \/ IsNaN(b) THEN FALSE
  ELSE (IsZero(a) /\ IsZero(b)) \/ a = b

\* a <= b
FLe(a, b) == FLt(a, b) \/ FEq(a, b)

\* The integer part q and the remainder flag of a finite magnitude m * 2^e.
IntPart(a) ==
  IF a.e >= 0 THEN [q |-> a.m, e |-> a.e, frac |-> FALSE]
  ELSE IF 0 - a.e >= BitLen(a.m) THEN [q |-> 0, e |-> 0, frac |-> a.m # 0]
  ELSE [q |-> a.m \div Pow2(0 - a.e), e |-> 0, frac |-> a.m % Pow2(0 - a.e) # 0]

\* floorf(a)
FFloor(a) ==
  IF ~IsFinite(a) THEN a
  ELSE LET p == IntPart(a)
       IN IF a.neg /\ p.frac THEN Round(TRUE, p.q + 1, p.e, FALSE)
          ELSE Round(a.neg, p.q, p.e, FALSE)

\* ceilf(a)
FCeil(a) ==
  IF ~IsFinite(a) THEN a
  ELSE LET p == IntPart(a)
       IN IF ~a.neg /\ p.frac THEN Round(FALSE, p.q + 1, p.e, FALSE)
          ELSE Round(a.neg, p.q, p.e, FALSE)

\* Magnitude of an integer-valued float literal such as 1.f or -2.0f.
Lit(n) == Round(n < 0, IF n < 0 THEN 0 - n ELSE n, 0, FALSE)

\* Math.h ---------------------------------------------------------------

\* Clamp without its upper bound.
ClampNoUpper(value, min, max) == IF FLt(value, min) THEN min ELSE value

Clamp(value, min, max) ==
  IF FLt(value, min) THEN min ELSE IF FGt(value, max) THEN max ELSE value

\* Ceiling(value): static_cast<float>(std::ceilf(value))
CeilingWhole(value) == FCeil(value)

\* Ceiling(value, multiplier)
Ceiling(value, multiplier) == FMul(CeilingWhole(FDiv(value, multiplier)), multiplier)

\* Floor(value) rounding towards +infinity.
FloorWholeUp(value) == FCeil(value)

\* Floor(value): static_cast<float>(std::floorf(value))
FloorWhole(value) == FFloor(value)

\* Floor(value, multiplier)
Floor(value, multiplier) == FMul(FloorWhole(FDiv(value, multiplier)), multiplier)

\* Sign with zero counted as negative.
SignZeroNegative(value) == IF FLe(value, Lit(0)) THEN Lit(-1) ELSE Lit(1)

Sign(value) == IF FLt(value, Lit(0)) THEN Lit(-1) ELSE Lit(1)

Sqrt(value) == FSqrt(value)

\* Vector.h, Vector.inl -------------------------------------------------

\* Vector2f(x, y)
Vector2f(vx, vy) == [x |-> vx, y |-> vy]

\* Vector2f(value)
Vector2fSplat(value) == Vector2f(value, value)

\* operator+
Plus(a, b) == Vector2f(FAdd(a.x, b.x), FAdd(a.y, b.y))

\* operator*=
TimesAssign(v, rhs) == Vector2f(FMul(v.x, rhs), FMul(v.y, rhs))

Length(v) == Sqrt(FAdd(FMul(v.x, v.x), FMul(v.y, v.y)))

\* constexpr float epsilon = 0.0000001f: the float nearest to 10^-7 = 2^-7 / 5^7.
epsilon ==
  LET k == Precision + 18
  IN Round(FALSE, Pow2(k) \div 78125, 0 - 7 - k, TRUE)

\* Limit: whether the scaling branch is taken.
LimitScales(v, value) == FGt(Length(v), value)

\* Limit without its comparison.
LimitAlways(v, value) == TimesAssign(v, FDiv(value, Length(v)))

Limit(v, value) ==
  LET length == Length(v)
  IN IF FGt(length, value) THEN TimesAssign(v, FDiv(value, length)) ELSE v

\* Normalize guarding against a length of exactly zero only.
NormalizeScalesNonzero(v) == FGt(Length(v), Lit(0))

\* Normalize: whether the scaling branch is taken.
NormalizeScales(v) == FGt(Length(v), epsilon)

\* Normalize multiplying by the length instead of its reciprocal.
NormalizeByLength(v) ==
  IF NormalizeScales(v) THEN TimesAssign(v, Length(v))
  ELSE Vector2f(Lit(0), Lit(0))

Normalize(v) ==
  LET length == Length(v)
  IN IF NormalizeScales(v) THEN TimesAssign(v, FDiv(Lit(1), length))
     ELSE Vector2f(Lit(0), Lit(0))

\* NormalizeUnsafe with the guard of Normalize.
NormalizeUnsafeGuarded(v) == Normalize(v)

NormalizeUnsafe(v) == TimesAssign(v, FDiv(Lit(1), Length(v)))

\* Limited returning the copy as it is.
LimitedUnlimited(v, value) == Vector2f(v.x, v.y)

\* Limited: Limit on a copy.
Limited(v, value) == Limit(Vector2f(v.x, v.y), value)

\* Normalized: Normalize on a copy.
Normalized(v) == Normalize(Vector2f(v.x, v.y))

\* NormalizedUnsafe: NormalizeUnsafe on a copy.
NormalizedUnsafe(v) == NormalizeUnsafe(Vector2f(v.x, v.y))

Dot(a, b) == FAdd(FMul(a.x, b.x), FMul(a.y, b.y))

Multiply(a, b) == Vector2f(FMul(a.x, b.x), FMul(a.y, b.y))

\* The counter-clockwise quarter turn.
PerpendicularMirror(vector) == Vector2f(FNeg(vector.y), vector.x)

Perpendicular(vector) == Vector2f(vector.y, FNeg(vector.x))

\* Reflect subtracting the projection once instead of twice.
ReflectUndoubled(vector, normal) ==
  LET dot1 == FMul(Lit(-1), Dot(vector, normal))
  IN Plus(Multiply(Vector2fSplat(dot1), normal), vector)

Reflect(vector, normal) ==
  LET dot2 == FMul(Lit(-2), Dot(vector, normal))
  IN Plus(Multiply(Vector2fSplat(dot2), normal), vector)

\* Inputs ----------------------------------------------------------------

\* The floats of one binade: 2^E <= |a| < 2^(E+1).
Binade(E) ==
  {Fin(s, m, E - (Precision - 1)) : s \in BOOLEAN, m \in Pow2(Precision - 1)..(Pow2(Precision) - 1)}

MaxFloat(neg) == Fin(neg, Pow2(Precision) - 1, UlpMax)
MinSubnormal(neg) == Fin(neg, 1, UlpMin)

Special == {NaN, Inf(TRUE), Inf(FALSE), Zero(TRUE), Zero(FALSE),
            MaxFloat(TRUE), MaxFloat(FALSE), MinSubnormal(TRUE), MinSubnormal(FALSE)}

\* The non-negative members of a set of floats.
NonNeg(S) == {a \in S : IsNaN(a) \/ ~a.neg}

\* Arguments of Clamp.
ClampInputs == Special \cup Binade(0)

\* Arguments of Sign, Floor and Ceiling: the specials, fractions, and the
\* integers up to 2^(Precision+1).
RoundInputs == Special \cup UNION {Binade(E) : E \in -2..Precision}

\* Components of the receiver: around 1, around epsilon (2^-24 < 10^-7 < 2^-23),
\* and so large that x * x is about to overflow (2^64 squared exceeds the largest float).
XInputs == Special \cup UNION {Binade(E) : E \in {-24, -23, 0, 63}}
YInputs == {NaN, Inf(FALSE), Zero(FALSE), MaxFloat(FALSE), Lit(-1), FDiv(Lit(-3), Lit(2))}
           \cup NonNeg(Binade(0)) \cup NonNeg(Binade(-24))

\* Arguments of Limit: around 1, around epsilon, and so small that
\* value * value underflows (2^-64 squared is below the smallest normal float).
LimitInputs == {NaN, Inf(FALSE), Zero(FALSE), Zero(TRUE), MaxFloat(FALSE), MinSubnormal(FALSE), Lit(-1)}
               \cup NonNeg(UNION {Binade(E) : E \in {-64, -63, -24, 0}})

\* Arguments of Limited.
LimitedInputs == {NaN, Zero(FALSE), Lit(-1)} \cup NonNeg(Binade(0))

\* Components of the normal passed to Reflect.
NormalInputs == {Zero(FALSE), Zero(TRUE), Lit(1), Lit(-1), Lit(2), NaN}

VARIABLES
  pc,       \* "start", "constructed" (a Vector2f exists), "returned" (a call returned)
  x, y,     \* the members of the Vector2f
  call,     \* the function last called
  args,     \* its arguments
  self,     \* the Vector2f as it was when the call was made
  ret,      \* the value the call returned
  divided   \* whether the call evaluated a division by Length()
vars == <<pc, x, y, call, args, self, ret, divided>>

Void == [cls |-> "void"]

\* Vector2f() : x(), y()
Init ==
  /\ pc = "start"
  /\ x = Lit(0)
  /\ y = Lit(0)
  /\ call = "Vector2f()"
  /\ args = <<>>
  /\ self = Vector2f(Lit(0), Lit(0))
  /\ ret = Void
  /\ divided = FALSE

\* What a call of a function of namespace math that takes no Vector2f leaves behind.
Returned(name, arguments, value) ==
  /\ pc' = "returned"
  /\ call' = name
  /\ args' = arguments
  /\ ret' = value
  /\ self' = Vector2f(x, y)
  /\ UNCHANGED <<x, y, divided>>

CallClamp ==
  /\ pc = "start"
  /\ \E value \in ClampInputs, min \in ClampInputs, max \in ClampInputs :
       Returned("Clamp", <<value, min, max>>, Clamp(value, min, max))

CallSign ==
  /\ pc = "start"
  /\ \E value \in RoundInputs : Returned("Sign", <<value>>, Sign(value))

CallFloor ==
  /\ pc = "start"
  /\ \E value \in RoundInputs, multiplier \in RoundInputs :
       Returned("Floor", <<value, multiplier>>, Floor(value, multiplier))

CallCeiling ==
  /\ pc = "start"
  /\ \E value \in RoundInputs, multiplier \in RoundInputs :
       Returned("Ceiling", <<value, multiplier>>, Ceiling(value, multiplier))

\* Vector2f(x, y)
Construct ==
  /\ pc = "start"
  /\ \E vx \in XInputs, vy \in YInputs :
       /\ pc' = "constructed"
       /\ x' = vx
       /\ y' = vy
       /\ call' = "Vector2f"
       /\ args' = <<vx, vy>>
       /\ self' = Vector2f(x, y)
       /\ UNCHANGED <<ret, divided>>

\* What a call of a member function that changes the Vector2f to `after` leaves behind.
Mutated(name, arguments, after, div) ==
  /\ pc' = "returned"
  /\ call' = name
  /\ args' = arguments
  /\ self' = Vector2f(x, y)
  /\ x' = after.x
  /\ y' = after.y
  /\ ret' = Void
  /\ divided' = div

\* What a call of a const member function, or of a function taking the Vector2f
\* by const reference, leaves behind.
Queried(name, arguments, value, div) ==
  /\ pc' = "returned"
  /\ call' = name
  /\ args' = arguments
  /\ self' = Vector2f(x, y)
  /\ ret' = value
  /\ divided' = div
  /\ UNCHANGED <<x, y>>

CallLimit ==
  /\ pc = "constructed"
  /\ \E value \in LimitInputs :
       Mutated("Limit", <<value>>, Limit(Vector2f(x, y), value),
               LimitScales(Vector2f(x, y), value))

CallNormalize ==
  /\ pc = "constructed"
  /\ Mutated("Normalize", <<>>, Normalize(Vector2f(x, y)), NormalizeScales(Vector2f(x, y)))

CallNormalizeUnsafe ==
  /\ pc = "constructed"
  /\ Mutated("NormalizeUnsafe", <<>>, NormalizeUnsafe(Vector2f(x, y)), TRUE)

CallLimited ==
  /\ pc = "constructed"
  /\ \E value \in LimitedInputs :
       Queried("Limited", <<value>>, Limited(Vector2f(x, y), value),
               LimitScales(Vector2f(x, y), value))

CallNormalized ==
  /\ pc = "constructed"
  /\ Queried("Normalized", <<>>, Normalized(Vector2f(x, y)), NormalizeScales(Vector2f(x, y)))

CallNormalizedUnsafe ==
  /\ pc = "constructed"
  /\ Queried("NormalizedUnsafe", <<>>, NormalizedUnsafe(Vector2f(x, y)), TRUE)

CallPerpendicular ==
  /\ pc = "constructed"
  /\ Queried("Perpendicular", <<Vector2f(x, y)>>, Perpendicular(Vector2f(x, y)), FALSE)

CallReflect ==
  /\ pc = "constructed"
  /\ \E nx \in NormalInputs, ny \in NormalInputs :
       Queried("Reflect", <<Vector2f(x, y), Vector2f(nx, ny)>>,
               Reflect(Vector2f(x, y), Vector2f(nx, ny)), FALSE)

\* The calls of the scalar functions of Math.h.
NextMath ==
  \/ CallClamp
  \/ CallSign
  \/ CallFloor
  \/ CallCeiling

\* The construction of a Vector2f and the calls that take it.
NextVector ==
  \/ Construct
  \/ CallLimit
  \/ CallNormalize
  \/ CallNormalizeUnsafe
  \/ CallLimited
  \/ CallNormalized
  \/ CallNormalizedUnsafe
  \/ CallPerpendicular
  \/ CallReflect

Next == NextMath \/ NextVector

Spec == Init /\ [][Next]_vars
SpecMath == Init /\ [][NextMath]_vars
SpecVector == Init /\ [][NextVector]_vars

\* Properties -----------------------------------------------------------

Abs(n) == IF n < 0 THEN 0 - n ELSE n

\* A value of the source is negative, zero or positive independently of how
\* the functions compare it.
IsNegative(a) == ~IsNaN(a) /\ a.neg /\ ~IsZero(a)
IsPositive(a) == ~IsNaN(a) /\ ~a.neg /\ ~IsZero(a)

\* A finite float that is neither zero nor subnormal.
IsNormal(a) == IsFinite(a) /\ a.m >= Pow2(Precision - 1)

\* The position of a finite float's magnitude among the magnitudes, counted
\* from zero; two floats are k units in the last place apart when their
\* positions differ by k.
Ord(a) == IF a.m < Pow2(Precision - 1) THEN a.m
          ELSE (a.e - UlpMin) * Pow2(Precision - 1) + a.m
UlpsApart(a, b) == Abs(Ord(a) - Ord(b))

\* operator== of Vector2f
VecEq(a, b) == FEq(a.x, b.x) /\ FEq(a.y, b.y)

\* The exact value of a float of moderate size as an integer multiple of
\* 2^(-2 * Precision).
Moderate(a) == IsFinite(a) /\ (a.m = 0 \/ (a.e >= 0 - 2 * Precision /\ a.e <= Precision + 2))
Scaled(a) == IF a.m = 0 THEN 0
             ELSE (IF a.neg THEN 0 - 1 ELSE 1) * a.m * Pow2(a.e + 2 * Precision)
Unit == Pow2(2 * Precision)
IsWhole(a) == Moderate(a) /\ Scaled(a) % Unit = 0

\* r is the largest multiple of multiplier that is <= value, in exact arithmetic.
LargestMultipleBelow(r, value, multiplier) ==
  /\ Moderate(r)
  /\ Scaled(r) % Scaled(multiplier) = 0
  /\ Scaled(r) <= Scaled(value)
  /\ Scaled(value) < Scaled(r) + Scaled(multiplier)

\* r is the smallest multiple of multiplier that is >= value, in exact arithmetic.
SmallestMultipleAbove(r, value, multiplier) ==
  /\ Moderate(r)
  /\ Scaled(r) % Scaled(multiplier) = 0
  /\ Scaled(r) >= Scaled(value)
  /\ Scaled(value) > Scaled(r) - Scaled(multiplier)

\* C1 (as stated): for every value v and bounds lo <= hi, Clamp(v, lo, hi) is
\* within [lo, hi], equals v when lo <= v <= hi, lo when v < lo and hi when v > hi.
C1_ClampEveryValue ==
  call = "Clamp" =>
    LET v == args[1]
        lo == args[2]
        hi == args[3]
    IN FLe(lo, hi) =>
         /\ FLe(lo, ret) /\ FLe(ret, hi)
         /\ (FLe(lo, v) /\ FLe(v, hi) => ret = v)
         /\ (FLt(v, lo) => ret = lo)
         /\ (FGt(v, hi) => ret = hi)

\* C1 (amended): the same for every value v that is not NaN; Clamp(NaN, lo, hi)
\* is NaN, which is within no bounds.
C1_ClampNonNaN ==
  call = "Clamp" =>
    LET v == args[1]
        lo == args[2]
        hi == args[3]
    IN /\ (FLe(lo, hi) /\ ~IsNaN(v) =>
             /\ FLe(lo, ret) /\ FLe(ret, hi)
             /\ (FLe(lo, v) /\ FLe(v, hi) => ret = v)
             /\ (FLt(v, lo) => ret = lo)
             /\ (FGt(v, hi) => ret = hi))
       /\ (IsNaN(v) => IsNaN(ret))

C1_Witness ==
  /\ call = "Clamp"
  /\ FLt(args[2], args[3])
  /\ FGt(args[1], args[3])
  /\ ret = args[3]

\* C6: Sign returns -1 for every negative input and +1 for every zero or
\* positive input; its result is never 0, and Sign(0) is +1.
C6_Sign ==
  call = "Sign" =>
    /\ (IsNegative(args[1]) => ret = Lit(-1))
    /\ (IsZero(args[1]) \/ IsPositive(args[1]) => ret = Lit(1))
    /\ ~IsZero(ret)
    /\ ret \in {Lit(-1), Lit(1)}

C6_Witness == call = "Sign" /\ IsZero(args[1]) /\ ret = Lit(1)

This == Vector2f(x, y)

\* Same sign or zero, and no larger in magnitude.
Shrunk(a, b) ==
  /\ IsFinite(a)
  /\ (IsZero(a) \/ a.neg = b.neg)
  /\ FLe(IF a.neg THEN FNeg(a) ELSE a, IF b.neg THEN FNeg(b) ELSE b)

\* The odd part of a positive integer and the number of times 2 divides it.
RECURSIVE Odd(_, _)
Odd(M, E) == IF M % 2 = 0 THEN Odd(M \div 2, E + 1) ELSE <<M, E>>

\* a * b = c * d in exact arithmetic, for finite floats.
SameProduct(a, b, c, d) ==
  IF a.m * b.m = 0 \/ c.m * d.m = 0 THEN a.m * b.m = 0 /\ c.m * d.m = 0
  ELSE /\ (a.neg = b.neg) = (c.neg = d.neg)
       /\ Odd(a.m * b.m, a.e + b.e) = Odd(c.m * d.m, c.e + d.e)

\* w is a non-negative scalar multiple of v, in exact arithmetic.
SameDirection(w, v) ==
  /\ IsFinite(w.x) /\ IsFinite(w.y) /\ IsFinite(v.x) /\ IsFinite(v.y)
  /\ SameProduct(w.x, v.y, w.y, v.x)
  /\ (IsZero(w.x) \/ w.x.neg = v.x.neg)
  /\ (IsZero(w.y) \/ w.y.neg = v.y.neg)

C4_NormalizeGuard ==
  call = "Normalize" =>
    LET length == Length(self)
    IN /\ (FLt(length, epsilon) => x = Zero(FALSE) /\ y = Zero(FALSE) /\ ~divided)
       /\ (IsZero(self.x) /\ IsZero(self.y) => x = Zero(FALSE) /\ y = Zero(FALSE) /\ ~divided)
       /\ (divided => FGt(length, epsilon))
       /\ (FGt(length, epsilon) =>
             /\ divided
             /\ x = FMul(self.x, FDiv(Lit(1), length))
             /\ y = FMul(self.y, FDiv(Lit(1), length)))
       /\ ret = Void

C4_Witness ==
  /\ call = "Normalize"
  /\ ~IsZero(Length(self)) /\ FLt(Length(self), epsilon)
  /\ x = Zero(FALSE) /\ y = Zero(FALSE) /\ ~divided

\* C5: NormalizeUnsafe() always divides by the current length, without a
\* guard; on (0,0) both x and y become NaN, and nothing else reports it.
C5_NormalizeUnsafe ==
  call = "NormalizeUnsafe" =>
    /\ divided
    /\ x = FMul(self.x, FDiv(Lit(1), Length(self)))
    /\ y = FMul(self.y, FDiv(Lit(1), Length(self)))
    /\ (IsZero(self.x) /\ IsZero(self.y) => IsNaN(x) /\ IsNaN(y))
    /\ ret = Void

C5_Witness ==
  /\ call = "NormalizeUnsafe"
  /\ self = Vector2f(Zero(FALSE), Zero(FALSE))
  /\ IsNaN(x) /\ IsNaN(y)

\* Reflect's formula, v - 2 * Dot(v, n) * n, evaluated componentwise.
ReflectFormula(v, n) ==
  LET d == FMul(Lit(2), FAdd(FMul(v.x, n.x), FMul(v.y, n.y)))
  IN Vector2f(FSub(v.x, FMul(d, n.x)), FSub(v.y, FMul(d, n.y)))

UnitAxis(n) ==
  \/ (IsZero(n.x) /\ n.y \in {Lit(1), Lit(-1)})
  \/ (IsZero(n.y) /\ n.x \in {Lit(1), Lit(-1)})

\* Along a unit axis normal the component is negated, the other one kept.
Mirrored(r, v, n) ==
  IF IsZero(n.x) THEN FEq(r.x, v.x) /\ FEq(r.y, FNeg(v.y))
  ELSE FEq(r.x, FNeg(v.x)) /\ FEq(r.y, v.y)

\* C8 (as stated): for every vector v and normal n, Reflect(v, n) is
\* v - 2 * Dot(v, n) * n componentwise, n not normalized; for a unit axis normal
\* the component of v along the normal is negated and the other one kept;
\* Reflect((1,-1), (0,1)) is (1,1).  Stated for the vectors with finite x and y.
C8_ReflectEveryVector ==
  call = "Reflect" =>
    LET v == args[1]
        n == args[2]
    IN /\ ret = ReflectFormula(v, n)
       /\ (UnitAxis(n) /\ IsFinite(v.x) /\ IsFinite(v.y) => Mirrored(ret, v, n))
       /\ (v = Vector2f(Lit(1), Lit(-1)) /\ n = Vector2f(Lit(0), Lit(1))
             => ret = Vector2f(Lit(1), Lit(1)))

\* C8 (amended): the same, the unit axis case for the finite vectors v whose
\* component along the normal can be doubled without overflow.
C8_ReflectFinite ==
  call = "Reflect" =>
    LET v == args[1]
        n == args[2]
        along == IF IsZero(n.x) THEN v.y ELSE v.x
    IN /\ ret = ReflectFormula(v, n)
       /\ (/\ UnitAxis(n)
           /\ IsFinite(v.x) /\ IsFinite(v.y)
           /\ IsFinite(FMul(Lit(2), along))
           => Mirrored(ret, v, n))
       /\ (v = Vector2f(Lit(1), Lit(-1)) /\ n = Vector2f(Lit(0), Lit(1))
             => ret = Vector2f(Lit(1), Lit(1)))

C8_Witness ==
  /\ call = "Reflect"
  /\ args = <<Vector2f(Lit(1), Lit(-1)), Vector2f(Lit(0), Lit(1))>>
  /\ ret = Vector2f(Lit(1), Lit(1))

\* C9: Perpendicular(v) is exactly (v.y, -v.x), the clockwise quarter turn,
\* and not the mirror (-v.y, v.x); Perpendicular((1,0)) is (0,-1).
C9_Perpendicular ==
  call = "Perpendicular" =>
    LET v == args[1]
    IN /\ ret.x = v.y
       /\ ret.y.cls = v.x.cls /\ ret.y.m = v.x.m /\ ret.y.e = v.x.e
       /\ (~IsNaN(v.x) => ret.y.neg # v.x.neg)
       /\ (~IsNaN(v.x) /\ ~IsNaN(v.y) /\ ~(IsZero(v.x) /\ IsZero(v.y))
             => ~VecEq(ret, Vector2f(FNeg(v.y), v.x)))
       /\ (v = Vector2f(Lit(1), Lit(0)) => ret = Vector2f(Lit(0), Lit(-1)))

C9_Witness ==
  /\ call = "Perpendicular"
  /\ args = <<Vector2f(Lit(1), Lit(0))>>
  /\ ret = Vector2f(Zero(FALSE), Lit(-1))

\* C10: Limited(value), Normalized() and NormalizedUnsafe() leave x and y of
\* the receiver unchanged and return exactly the vector that Limit(value),
\* Normalize() or NormalizeUnsafe() produces in place on a copy of it.
C10_NonMutating ==
  /\ (call = "Limited" => This = self /\ ret = Limit(self, args[1]))
  /\ (call = "Normalized" => This = self /\ ret = Normalize(self))
  /\ (call = "NormalizedUnsafe" => This = self /\ ret = NormalizeUnsafe(self))

C10_Witness ==
  /\ call = "Limited"
  /\ This = self
  /\ ret # self
  /\ IsFinite(ret.x) /\ IsFinite(ret.y)
====
